---- MODULE Spec2Model ----
(***************************************************************************)
(* Model of the PDF-table extraction pipeline (PdfToJsonPipeline and the   *)
(* earlier script variant): the markup reducer over a BeautifulSoup tree,  *)
(* the response validators and the inference gateway.                      *)
(***************************************************************************)
EXTENDS Integers, Sequences, FiniteSets, TLC

VARIABLES
    tree,       \* the BeautifulSoup tree of one page div: node id -> node
    input,      \* the tree as parsed, before any reduction
    pc,         \* position of the reducer scenario
    ret,        \* tree returned by the first call of the reducer
    exc,        \* exception raised by the last call ("" when it returned)
    strs,       \* divs_as_strings of clean_html_content / process_html
    files,      \* the output directory: path -> content written, or Absent
    call,       \* the last call of a validator: its arguments and outcome
    sent,       \* the requests sent to the chat-completion endpoint, in order
    inf,        \* the last call of run_inference: its arguments and outcome
    run         \* ProcessPdfs.run: the folder, the loop position and the log

reducerVars == <<tree, input, pc, ret, exc, strs>>

saveVars == <<files, call>>

gateVars == <<sent, inf>>

procVars == <<run>>

vars == <<tree, input, pc, ret, exc, strs, files, call, sent, inf, run>>

-----------------------------------------------------------------------------
(* Bounds *)

\* number of nodes below the page's root div in an enumerated page
MaxNodes == 3

-----------------------------------------------------------------------------
(* The BeautifulSoup tree.  A node is                                       *)
(*   [tag, data, attrs, kids, parent, dec]                                  *)
(* tag "#text" is a NavigableString with text data; attrs is a sequence of  *)
(* <<name, value>>; dec is bs4's _decomposed (the node's __dict__ was       *)
(* cleared, so every instance attribute reads as None and contents is []).  *)

Root == 1

Elem(tag, attrs, kids, parent) ==
    [tag |-> tag, data |-> "", attrs |-> attrs, kids |-> kids,
     parent |-> parent, dec |-> FALSE]

Text(data, parent) ==
    [tag |-> "#text", data |-> data, attrs |-> <<>>, kids |-> <<>>,
     parent |-> parent, dec |-> FALSE]

Cleared ==
    [tag |-> "", data |-> "", attrs |-> <<>>, kids |-> <<>>,
     parent |-> 0, dec |-> TRUE]

RECURSIVE Concat(_)
Concat(ss) == IF ss = <<>> THEN <<>> ELSE Head(ss) \o Concat(Tail(ss))

\* Tag.descendants: every node below n, in document order
RECURSIVE descendants(_, _)
descendants(t, n) ==
    Concat([i \in 1..Len(t[n].kids) |->
                <<t[n].kids[i]>> \o descendants(t, t[n].kids[i])])

Range(s) == {s[i] : i \in 1..Len(s)}

HasAttr(node, name) == \E i \in 1..Len(node.attrs) : node.attrs[i][1] = name

\* del tag.attrs[name]
DelAttr(node, name) ==
    [node EXCEPT !.attrs = SelectSeq(node.attrs, LAMBDA a : a[1] # name)]

\* Tag.find_all(name): the matching descendants, as a list computed up front
find_all(t, n, name) == SelectSeq(descendants(t, n), LAMBDA d : t[d].tag = name)

\* Tag.find_all(string=lambda text: isinstance(text, NavigableString))
find_all_strings(t, n) == SelectSeq(descendants(t, n), LAMBDA d : t[d].tag = "#text")

IsSpace(data) == data \in {"", " ", "\n"}

\* the emptiness test reading only the strings that are children of n
TextStrippedDirect(t, n) == \E d \in Range(t[n].kids) :
                                t[d].tag = "#text" /\ ~IsSpace(t[d].data)

\* bool(tag.text.strip()): some string below n holds a non-whitespace character
TextStripped(t, n) == \E d \in Range(descendants(t, n)) :
                          t[d].tag = "#text" /\ ~IsSpace(t[d].data)

\* PageElement.extract followed by clearing the node and all below it
decompose(t, n) ==
    LET gone == {n} \cup Range(descendants(t, n))
        p    == t[n].parent
    IN  [m \in DOMAIN t |->
            IF m \in gone THEN Cleared
            ELSE IF m = p
                 THEN [t[m] EXCEPT !.kids = SelectSeq(t[m].kids, LAMBDA k : k # n)]
                 ELSE t[m]]

RECURSIVE FoldSeq(_, _, _)
FoldSeq(Op(_, _), acc, s) ==
    IF s = <<>> THEN acc ELSE FoldSeq(Op, Op(acc, Head(s)), Tail(s))

-----------------------------------------------------------------------------
(* The markup reducer *)

\* DivStep without the two emptiness tests: the class is stripped, nothing removed
DivStepKeepsEmpty(st, d) ==
    IF st.exc # "" THEN st
    ELSE IF st.t[d].dec THEN [st EXCEPT !.exc = "TypeError"]
    ELSE IF HasAttr(st.t[d], "class")
         THEN [st EXCEPT !.t[d] = DelAttr(@, "class")]
         ELSE st

\* one pass of the loop "for div in div_element.find_all('div')"; st is
\* [t, exc].  On a div that an earlier pass decomposed together with an
\* ancestor, div.attrs reads as None and the membership test raises TypeError.
DivStep(st, d) ==
    IF st.exc # "" THEN st
    ELSE IF st.t[d].dec THEN [st EXCEPT !.exc = "TypeError"]
    ELSE LET t1 == IF HasAttr(st.t[d], "class")
                   THEN [st.t EXCEPT ![d] = DelAttr(@, "class")]
                   ELSE st.t
             t2 == IF find_all_strings(t1, d) = <<>> THEN decompose(t1, d) ELSE t1
             t3 == IF ~TextStripped(t2, d) THEN decompose(t2, d) ELSE t2
         IN  [st EXCEPT !.t = t3]

\* SpanStep testing "not span.contents" in place of "not span.text.strip()"
SpanStepNoContents(st, s) ==
    IF st.exc # "" THEN st
    ELSE IF st.t[s].kids = <<>> THEN [st EXCEPT !.t = decompose(st.t, s)]
    ELSE st

\* one pass of the loop "for span in div_element.find_all('span')"
SpanStep(st, s) ==
    IF st.exc # "" THEN st
    ELSE IF ~TextStripped(st.t, s) THEN [st EXCEPT !.t = decompose(st.t, s)]
    ELSE st

\* ImgStep that leaves the image in the tree
ImgStepKeeps(st, i) == st

\* one pass of the loop "for img in div_element.find_all('img')"
ImgStep(st, i) == [st EXCEPT !.t = decompose(st.t, i)]

\* PdfToJsonPipeline._remove_images_and_empty_divs: [t, exc], t the tree as
\* the call leaves it and exc the exception it raised ("" when it returned)
remove_images_and_empty_divs(t, n) ==
    LET s1 == FoldSeq(ImgStep, [t |-> t, exc |-> ""], find_all(t, n, "img"))
        s2 == FoldSeq(DivStep, s1, find_all(s1.t, n, "div"))
    IN  FoldSeq(SpanStep, s2, find_all(s2.t, n, "span"))

\* the div loop of the script variant process_html
LocalDivStep(st, d) ==
    IF find_all_strings(st.t, d) = <<>> THEN [st EXCEPT !.t = decompose(st.t, d)]
    ELSE IF ~st.t[d].dec /\ HasAttr(st.t[d], "class")
         THEN [st EXCEPT !.t[d] = DelAttr(@, "class")]
         ELSE st

\* the body of the page loop of process_html
process_html_page(t, n) ==
    LET s1 == FoldSeq(ImgStep, [t |-> t, exc |-> ""], find_all(t, n, "img"))
    IN  FoldSeq(LocalDivStep, s1, find_all(s1.t, n, "div"))

\* str(tag): bs4's serialisation of an element
AttrStr(a) == " " \o a[1] \o "=\"" \o a[2] \o "\""

RECURSIVE JoinStr(_)
JoinStr(ss) == IF ss = <<>> THEN "" ELSE Head(ss) \o JoinStr(Tail(ss))

VoidTags == {"img"}

RECURSIVE Str(_, _)
Str(t, n) ==
    IF t[n].tag = "#text" THEN t[n].data
    ELSE LET open == "<" \o t[n].tag
                     \o JoinStr([i \in 1..Len(t[n].attrs) |-> AttrStr(t[n].attrs[i])])
         IN  IF t[n].tag \in VoidTags /\ t[n].kids = <<>>
             THEN open \o "/>"
             ELSE open \o ">"
                  \o JoinStr([i \in 1..Len(t[n].kids) |-> Str(t, t[n].kids[i])])
                  \o "</" \o t[n].tag \o ">"

-----------------------------------------------------------------------------
(* The pages the reducer is run on: every tree of at most MaxNodes nodes    *)
(* below a root div that carries data-page-no, and the page of the          *)
(* specification's scenario.                                                *)

Kinds == {"img", "div", "divc", "span", "table", "tr", "td", "txt", "ws"}

LeafKinds == {"img", "txt", "ws"}

\* parent vectors of the ordered trees with nodes 1..n+1 numbered in document order
RECURSIVE AncSelf(_, _)
AncSelf(par, i) == IF i = 0 THEN {} ELSE {i} \cup AncSelf(par, par[i])

Shapes(n) ==
    {par \in [1..n+1 -> 0..n] :
        /\ par[1] = 0
        /\ \A i \in 2..n+1 : par[i] \in AncSelf(par, i - 1)}

RECURSIVE SortedSeq(_)
SortedSeq(S) ==
    IF S = {} THEN <<>>
    ELSE LET m == CHOOSE x \in S : \A y \in S : x <= y
         IN  <<m>> \o SortedSeq(S \ {m})

KidsOf(par, i) == SortedSeq({j \in DOMAIN par : par[j] = i})

NodeOf(kind, kids, parent) ==
    CASE kind = "img"  -> Elem("img", << <<"src", "x">> >>, kids, parent)
      [] kind = "divc" -> Elem("div", << <<"class", "c">> >>, kids, parent)
      [] kind = "txt"  -> Text("A", parent)
      [] kind = "ws"   -> Text(" ", parent)
      [] OTHER         -> Elem(kind, <<>>, kids, parent)

PageRoot(cls, kids) ==
    Elem("div",
         (IF cls THEN << <<"class", "pf">> >> ELSE <<>>) \o << <<"data-page-no", "1">> >>,
         kids, 0)

Build(par, kd, cls) ==
    [i \in DOMAIN par |->
        IF i = Root THEN PageRoot(cls, KidsOf(par, i))
        ELSE NodeOf(kd[i], KidsOf(par, i), par[i])]

\* the kinds of the nodes below the root: strings and img have no children
KindsFor(par) ==
    {kd \in [2..Len(par) -> Kinds] :
        \A i \in 2..Len(par) : par[i] # Root => kd[par[i]] \notin LeafKinds}

\* <div data-page-no="1"><img src="x"/><div></div><table><tr><td>A</td></tr></table></div>
ScenarioPage ==
    <<  Elem("div", << <<"data-page-no", "1">> >>, <<2, 3, 4>>, 0),
        Elem("img", << <<"src", "x">> >>, <<>>, 1),
        Elem("div", <<>>, <<>>, 1),
        Elem("table", <<>>, <<5>>, 1),
        Elem("tr", <<>>, <<6>>, 4),
        Elem("td", <<>>, <<7>>, 5),
        Text("A", 6) >>

-----------------------------------------------------------------------------
(* Reducer scenario: a page is parsed, then reduced (and reduced again), or *)
(* cleaned by clean_html_content, or by the script variant process_html.    *)

InitReduce ==
    /\ \/ \E n \in 0..MaxNodes : \E par \in Shapes(n) : \E kd \in KindsFor(par) :
             \E cls \in BOOLEAN : tree = Build(par, kd, cls)
       \/ tree = ScenarioPage
    /\ input = tree
    /\ pc = "parsed"
    /\ ret = <<>>
    /\ exc = ""
    /\ strs = <<>>
    /\ files = <<>> /\ call = <<>>
    /\ sent = <<>> /\ inf = <<>>
    /\ run = <<>>

\* a call of _remove_images_and_empty_divs on the parsed page, or on the tree
\* the first call returned
RemoveImagesAndEmptyDivs ==
    /\ pc \in {"parsed", "reduced"}
    /\ LET r == remove_images_and_empty_divs(tree, Root)
       IN  /\ tree' = r.t
           /\ exc' = r.exc
           /\ pc' = IF r.exc # "" THEN "raised"
                    ELSE IF pc = "parsed" THEN "reduced" ELSE "reduced2"
           /\ ret' = IF pc = "parsed" /\ r.exc = "" THEN r.t ELSE ret
    /\ UNCHANGED <<procVars, input, strs, saveVars, gateVars>>

\* clean_html_content on a file that holds the one page
CleanHtmlContent ==
    /\ pc = "parsed"
    /\ LET r == remove_images_and_empty_divs(tree, Root)
       IN  /\ tree' = r.t
           /\ exc' = r.exc
           /\ pc' = IF r.exc # "" THEN "raised" ELSE "cleaned"
           /\ strs' = IF r.exc # "" THEN strs ELSE Append(strs, Str(r.t, Root))
    /\ UNCHANGED <<procVars, input, ret, saveVars, gateVars>>

\* process_html of the script variant on a file that holds the one page
ProcessHtml ==
    /\ pc = "parsed"
    /\ LET r == process_html_page(tree, Root)
       IN  /\ tree' = r.t
           /\ strs' = Append(strs, Str(r.t, Root))
    /\ pc' = "processed"
    /\ UNCHANGED <<procVars, input, ret, exc, saveVars, gateVars>>

NextReduce == RemoveImagesAndEmptyDivs \/ CleanHtmlContent \/ ProcessHtml

SpecReduce == InitReduce /\ [][NextReduce]_vars

-----------------------------------------------------------------------------
(* Properties of the markup reducer *)

\* the nodes still in the page's tree
Live(t) == {Root} \cup Range(descendants(t, Root))

Returned == pc \in {"reduced", "reduced2", "cleaned"}

\* C1: the reducer is idempotent: a second call on the tree a first call
\* returned returns (never raises) and leaves that tree as it was
C1_Idempotent ==
    /\ pc = "reduced2" => tree = ret
    /\ pc = "raised" => ret = <<>>

\* a second call has returned on a tree the first call had changed
C1_Witness == pc = "reduced2" /\ ret # input /\ Cardinality(Live(ret)) > 1

\* d heads a chain of nested divs, each the only child of the one above,
\* the innermost without children
RECURSIVE EmptyDivChain(_, _)
EmptyDivChain(t, d) ==
    /\ t[d].tag = "div"
    /\ \/ t[d].kids = <<>>
       \/ Len(t[d].kids) = 1 /\ EmptyDivChain(t, t[d].kids[1])

ChainDivs(t) == {d \in Live(t) \ {Root} : EmptyDivChain(t, d)}

\* C2: emptiness cascade: for a page that holds a chain of nested empty divs
\* of any depth, the reducer returns a page in which none of them remains
C2_EmptinessCascade ==
    (pc \in {"reduced", "cleaned", "raised"} /\ ChainDivs(input) # {})
        => (exc = "" /\ ChainDivs(input) \cap Live(tree) = {})

\* C3: image invariant: the tree the reducer returns, and every string
\* clean_html_content or process_html returns, holds no img element
C3_ImageInvariant ==
    (Returned \/ pc = "processed")
        => /\ \A n \in Live(tree) : tree[n].tag # "img"
           /\ \A i \in 1..Len(strs) : strs[i] = Str(tree, Root)

\* a page that held an image below a container that survives was reduced
C3_Witness ==
    /\ pc = "cleaned"
    /\ \E n \in Live(input) : input[n].tag = "img" /\ input[n].parent \in Live(tree) \ {Root}

ScenarioReduced == "<div data-page-no=\"1\"><table><tr><td>A</td></tr></table></div>"

\* C4: the scenario page reduces to exactly
\* <div data-page-no="1"><table><tr><td>A</td></tr></table></div>
C4_Scenario ==
    input = ScenarioPage =>
        /\ pc = "cleaned" => strs = <<ScenarioReduced>>
        /\ pc = "reduced" => Str(tree, Root) = ScenarioReduced

C4_Witness == input = ScenarioPage /\ pc = "cleaned" /\ Len(strs) = 1

\* C5: the reducer never deletes table structure: every table, tr and td of
\* the input is still in the reduced page
C5_TableStructureKept ==
    pc \in {"reduced", "cleaned"} =>
        \A n \in Live(input) : input[n].tag \in {"table", "tr", "td"} => n \in Live(tree)

\* C6: after reduction no div of the page, the root included, has a class
\* attribute, and every div that held non-whitespace text is kept
C6_NoClassOnDivs ==
    pc \in {"reduced", "cleaned"} =>
        /\ \A n \in Live(tree) : tree[n].tag = "div" => ~HasAttr(tree[n], "class")
        /\ \A n \in Live(input) :
              (input[n].tag = "div" /\ TextStripped(input, n)) => n \in Live(tree)

-----------------------------------------------------------------------------
(* Texts are sequences of one-character strings.  The grave accent (U+0060) *)
(* cannot be written in a string of this module: Tick stands for it.        *)

Tick == "U+0060"

Fence == <<Tick, Tick, Tick>>

\* str.strip(chars): drop the leading and trailing characters that are in chars
RECURSIVE LStrip(_, _)
LStrip(s, chars) ==
    IF s # <<>> /\ Head(s) \in Range(chars) THEN LStrip(Tail(s), chars) ELSE s

RECURSIVE RStrip(_, _)
RStrip(s, chars) ==
    IF s # <<>> /\ s[Len(s)] \in Range(chars)
    THEN RStrip(SubSeq(s, 1, Len(s) - 1), chars) ELSE s

strip(s, chars) == RStrip(LStrip(s, chars), chars)

\* str.replace(old, new): every non-overlapping occurrence, left to right
RECURSIVE replace(_, _, _)
replace(s, old, new) ==
    IF Len(s) < Len(old) THEN s
    ELSE IF SubSeq(s, 1, Len(old)) = old
         THEN new \o replace(SubSeq(s, Len(old) + 1, Len(s)), old, new)
         ELSE <<Head(s)>> \o replace(Tail(s), old, new)

-----------------------------------------------------------------------------
(* json.loads on texts over braces, brackets, the double quote, colon,      *)
(* comma, space, newline, the digit 1 and letters.  A value is [t, v] with  *)
(* t one of str, num, arr, obj and v the characters, the elements, or the   *)
(* key-value pairs.  A parse result is [ok, val, rest].                     *)

Fail == [ok |-> FALSE, val |-> <<>>, rest |-> <<>>]

Ok(val, rest) == [ok |-> TRUE, val |-> val, rest |-> rest]

JsonWs == {" ", "\n"}

RECURSIVE SkipWs(_)
SkipWs(s) == IF s # <<>> /\ Head(s) \in JsonWs THEN SkipWs(Tail(s)) ELSE s

\* the characters of a string up to its closing quote; a raw newline is a
\* control character, which the strict decoder rejects
RECURSIVE ScanString(_, _)
ScanString(s, acc) ==
    IF s = <<>> \/ Head(s) = "\n" THEN Fail
    ELSE IF Head(s) = "\"" THEN Ok([t |-> "str", v |-> acc], Tail(s))
    ELSE ScanString(Tail(s), Append(acc, Head(s)))

RECURSIVE ScanNumber(_, _)
ScanNumber(s, acc) ==
    IF s # <<>> /\ Head(s) = "1" THEN ScanNumber(Tail(s), Append(acc, "1"))
    ELSE Ok([t |-> "num", v |-> acc], s)

\* dict[key] = value: a repeated key keeps its place and takes the new value
DictPut(pairs, k, v) ==
    IF \E i \in 1..Len(pairs) : pairs[i][1] = k
    THEN [i \in 1..Len(pairs) |-> IF pairs[i][1] = k THEN <<k, v>> ELSE pairs[i]]
    ELSE Append(pairs, <<k, v>>)

RECURSIVE ScanOnce(_), ScanArray(_, _), ScanObject(_, _)

\* the value that starts at the head of s
ScanOnce(s) ==
    IF s = <<>> THEN Fail
    ELSE CASE Head(s) = "\"" -> ScanString(Tail(s), <<>>)
           [] Head(s) = "1"  -> ScanNumber(s, <<>>)
           [] Head(s) = "["  ->
                LET r == SkipWs(Tail(s))
                IN  IF r # <<>> /\ Head(r) = "]"
                    THEN Ok([t |-> "arr", v |-> <<>>], Tail(r))
                    ELSE ScanArray(r, <<>>)
           [] Head(s) = "{"  ->
                LET r == SkipWs(Tail(s))
                IN  IF r # <<>> /\ Head(r) = "}"
                    THEN Ok([t |-> "obj", v |-> <<>>], Tail(r))
                    ELSE ScanObject(r, <<>>)
           [] OTHER -> Fail

\* the elements of an array, s at the start of an element
ScanArray(s, acc) ==
    LET e == ScanOnce(s)
    IN  IF ~e.ok THEN Fail
        ELSE LET r   == SkipWs(e.rest)
                 els == Append(acc, e.val)
             IN  IF r = <<>> THEN Fail
                 ELSE IF Head(r) = "]" THEN Ok([t |-> "arr", v |-> els], Tail(r))
                 ELSE IF Head(r) = "," THEN ScanArray(SkipWs(Tail(r)), els)
                 ELSE Fail

\* the members of an object, s at the start of a key
ScanObject(s, acc) ==
    IF s = <<>> \/ Head(s) # "\"" THEN Fail
    ELSE LET k == ScanString(Tail(s), <<>>)
         IN  IF ~k.ok THEN Fail
             ELSE LET c == SkipWs(k.rest)
                  IN  IF c = <<>> \/ Head(c) # ":" THEN Fail
                      ELSE LET e == ScanOnce(SkipWs(Tail(c)))
                           IN  IF ~e.ok THEN Fail
                               ELSE LET r  == SkipWs(e.rest)
                                        ps == DictPut(acc, k.val.v, e.val)
                                    IN  IF r = <<>> THEN Fail
                                        ELSE IF Head(r) = "}"
                                             THEN Ok([t |-> "obj", v |-> ps], Tail(r))
                                        ELSE IF Head(r) = ","
                                             THEN ScanObject(SkipWs(Tail(r)), ps)
                                        ELSE Fail

\* json.loads: one value between optional whitespace, nothing after it;
\* ok = FALSE stands for json.JSONDecodeError
json_loads(s) ==
    LET e == ScanOnce(SkipWs(s))
    IN  IF e.ok /\ SkipWs(e.rest) = <<>> THEN Ok(e.val, <<>>) ELSE Fail

-----------------------------------------------------------------------------
(* yaml.load on texts that hold at most one line of content, over letters,  *)
(* space, newline, comma, colon and the double quote (block context: the    *)
(* repair pass has removed every bracket).  Tokens are scalars              *)
(* [k |-> "S", v |-> characters] and the value indicator [k |-> "V"].       *)

Blank == {" ", "\n"}

Indicator == [k |-> "V", v |-> <<>>]

Scalar(chars) == [k |-> "S", v |-> chars]

\* the characters of a double-quoted scalar up to its closing quote
RECURSIVE ScanQuoted(_, _)
ScanQuoted(s, acc) ==
    IF s = <<>> THEN Fail
    ELSE IF Head(s) = "\"" THEN Ok(acc, Tail(s))
    ELSE ScanQuoted(Tail(s), Append(acc, Head(s)))

\* a colon ends a plain scalar, or is the value indicator, before a blank or the end
ColonEnds(s) == Head(s) = ":" /\ (Len(s) = 1 \/ s[2] \in Blank)

\* scan_plain: the characters of a plain scalar, inner spaces included
RECURSIVE ScanPlain(_, _)
ScanPlain(s, acc) ==
    IF s = <<>> \/ ColonEnds(s) THEN Ok(RStrip(acc, <<" ">>), s)
    ELSE ScanPlain(Tail(s), Append(acc, Head(s)))

\* the tokens of one line; ok = FALSE stands for yaml.scanner.ScannerError
RECURSIVE Tokens(_, _)
Tokens(s0, acc) ==
    LET s == LStrip(s0, <<" ">>)
    IN  IF s = <<>> THEN Ok(acc, <<>>)
        ELSE IF Head(s) = "\""
             THEN LET q == ScanQuoted(Tail(s), <<>>)
                  IN  IF q.ok THEN Tokens(q.rest, Append(acc, Scalar(q.val))) ELSE Fail
        ELSE IF ColonEnds(s) THEN Tokens(Tail(s), Append(acc, Indicator))
        ELSE IF Head(s) \in {",", Tick} THEN Fail
        ELSE LET pl == ScanPlain(s, <<>>)
             IN  Tokens(pl.rest, Append(acc, Scalar(pl.val)))

Null == [t |-> "null", v |-> <<>>]

YamlStr(tok) == [t |-> "str", v |-> tok.v]

\* the document of a token sequence: nothing, one scalar, or one key-value
\* pair of a block mapping; anything else is a yaml.parser.ParserError
Document(toks) ==
    LET kinds == [i \in 1..Len(toks) |-> toks[i].k]
    IN  CASE kinds = <<>>              -> Ok(Null, <<>>)
          [] kinds = <<"S">>           -> Ok(YamlStr(toks[1]), <<>>)
          [] kinds = <<"S", "V">>      -> Ok([t |-> "map", v |-> << <<YamlStr(toks[1]), Null>> >>], <<>>)
          [] kinds = <<"S", "V", "S">> ->
                Ok([t |-> "map", v |-> << <<YamlStr(toks[1]), YamlStr(toks[3])>> >>], <<>>)
          [] kinds = <<"V">>           -> Ok([t |-> "map", v |-> << <<Null, Null>> >>], <<>>)
          [] kinds = <<"V", "S">>      -> Ok([t |-> "map", v |-> << <<Null, YamlStr(toks[2])>> >>], <<>>)
          [] OTHER                     -> Fail

\* yaml.load(text, Loader=yaml.UnsafeLoader); ok = FALSE stands for yaml.YAMLError
yaml_load(s) ==
    LET line == strip(s, <<" ", "\n">>)
        toks == Tokens(line, <<>>)
    IN  IF toks.ok THEN Document(toks.val) ELSE Fail

-----------------------------------------------------------------------------
(* The response validators *)

\* length of the enumerated JSON payloads
MaxJsonLen == 3

\* length of the enumerated YAML values
MaxValueLen == 3

RECURSIVE SeqsUpTo(_, _)
SeqsUpTo(S, n) ==
    IF n = 0 THEN {<<>>}
    ELSE LET shorter == SeqsUpTo(S, n - 1)
         IN  shorter \cup {Append(q, c) : q \in {x \in shorter : Len(x) = n - 1}, c \in S}

\* {"rows":[["A"]]}
ScenarioJson ==
    <<"{", "\"", "r", "o", "w", "s", "\"", ":", "[", "[", "\"", "A", "\"", "]", "]", "}">>

JsonPayloads ==
    SeqsUpTo({"{", "}", "[", "]", "\"", ",", "1", " "}, MaxJsonLen) \cup {ScenarioJson}

KeyColon == <<"k", "e", "y", ":", " ">>

\* [a, b]
ScenarioValue == <<"[", "a", ",", " ", "b", "]">>

YamlValues == SeqsUpTo({"a", ",", " ", "[", "]", "\""}, MaxValueLen) \cup {ScenarioValue}

YamlPayloads == YamlValues \cup {KeyColon \o v : v \in YamlValues}

\* the reply of the model: the payload bare, inside a fence, or inside a
\* fence with the format tag
Wraps == {"bare", "fence", "tagged"}

Wrapped(payload, wrap, tag) ==
    CASE wrap = "bare"   -> payload
      [] wrap = "fence"  -> Fence \o <<"\n">> \o payload \o <<"\n">> \o Fence
      [] wrap = "tagged" -> Fence \o tag \o <<"\n">> \o payload \o <<"\n">> \o Fence

JsonTag == <<"j", "s", "o", "n">>

YamlTag == <<"y", "a", "m", "l">>

Absent == [dump |-> "absent", of |-> <<>>]

\* an artifact an earlier run left
Earlier == [dump |-> "earlier run", of |-> <<>>]

\* json.dump(parsed_response, file, indent=4)
JsonDump(val) == [dump |-> "json.dump indent=4", of |-> val]

\* yaml.dump(parsed_response, file)
YamlDump(val) == [dump |-> "yaml.dump", of |-> val]

\* file.write(response)
Written(text) == [dump |-> "write", of |-> text]

FileNames == {"N_whole", "N_whole_text"}

LocalName == "processed_N"

Paths == (FileNames \X {".json", ".yaml"}) \cup {<<LocalName, ".json">>}

NoCall == [op |-> "", name |-> "", payload |-> <<>>, wrap |-> "", response |-> <<>>,
           stripped |-> <<>>, loaded |-> <<>>, ok |-> FALSE, val |-> <<>>, exc |-> ""]

InitSave ==
    /\ files \in {[p \in Paths |-> Absent], [p \in Paths |-> Earlier]}
    /\ call = NoCall
    /\ tree = <<>> /\ input = <<>> /\ pc = "" /\ ret = <<>> /\ exc = "" /\ strs = <<>>
    /\ sent = <<>> /\ inf = <<>>
    /\ run = <<>>

\* save_response_as_json opening the output file before it parses the reply
save_response_as_json_opens_first(response, name) ==
    LET cleaned_response == strip(response, Fence)
        parsed == json_loads(cleaned_response)
    IN  [stripped |-> cleaned_response, loaded |-> cleaned_response,
         ok |-> parsed.ok, val |-> parsed.val,
         exc |-> IF parsed.ok THEN "" ELSE "ValueError",
         files |-> [files EXCEPT ![<<name, ".json">>] =
                       IF parsed.ok THEN JsonDump(parsed.val) ELSE Written(<<>>)]]

\* PdfToJsonPipeline.save_response_as_json
save_response_as_json(response, name) ==
    LET cleaned_response == strip(response, Fence)
        parsed == json_loads(cleaned_response)
    IN  [stripped |-> cleaned_response, loaded |-> cleaned_response,
         ok |-> parsed.ok, val |-> parsed.val,
         exc |-> IF parsed.ok THEN "" ELSE "ValueError",
         files |-> IF parsed.ok
                   THEN [files EXCEPT ![<<name, ".json">>] = JsonDump(parsed.val)]
                   ELSE files]

\* the repair rewriting the opening bracket only
RepairOpeningOnly(text) == replace(text, <<"[">>, <<"\"">>)

\* the bracket repair of save_response_as_yaml
RepairBrackets(text) == replace(replace(text, <<"[">>, <<"\"">>), <<"]">>, <<"\"">>)

\* PdfToJsonPipeline.save_response_as_yaml
save_response_as_yaml(response, name) ==
    LET unfenced == replace(replace(response, Fence \o YamlTag, <<>>), Fence, <<>>)
        cleaned_response == RepairBrackets(unfenced)
        parsed == yaml_load(cleaned_response)
    IN  [stripped |-> unfenced, loaded |-> cleaned_response,
         ok |-> parsed.ok, val |-> parsed.val,
         exc |-> IF parsed.ok THEN "" ELSE "ValueError",
         files |-> IF parsed.ok
                   THEN [files EXCEPT ![<<name, ".yaml">>] = YamlDump(parsed.val)]
                   ELSE files]

\* save_json of the script variant: an invalid response is reported on the
\* console and nothing is raised
save_json(response, name) ==
    LET cleaned == replace(replace(response, Fence \o JsonTag, <<>>), Fence, <<>>)
        parsed == json_loads(cleaned)
    IN  [stripped |-> cleaned, loaded |-> cleaned,
         ok |-> parsed.ok, val |-> parsed.val, exc |-> "",
         files |-> IF parsed.ok
                   THEN [files EXCEPT ![<<name, ".json">>] = Written(cleaned)]
                   ELSE files]

Outcome(op, name, payload, wrap, response, r) ==
    [op |-> op, name |-> name, payload |-> payload, wrap |-> wrap, response |-> response,
     stripped |-> r.stripped, loaded |-> r.loaded, ok |-> r.ok, val |-> r.val,
     exc |-> r.exc]

SaveResponseAsJson ==
    /\ call.op = ""
    /\ \E payload \in JsonPayloads, wrap \in Wraps, name \in FileNames :
         LET response == Wrapped(payload, wrap, JsonTag)
             r == save_response_as_json(response, name)
         IN  /\ files' = r.files
             /\ call' = Outcome("save_response_as_json", name, payload, wrap, response, r)
    /\ UNCHANGED <<procVars, reducerVars, gateVars>>

SaveResponseAsYaml ==
    /\ call.op = ""
    /\ \E payload \in YamlPayloads, wrap \in Wraps, name \in FileNames :
         LET response == Wrapped(payload, wrap, YamlTag)
             r == save_response_as_yaml(response, name)
         IN  /\ files' = r.files
             /\ call' = Outcome("save_response_as_yaml", name, payload, wrap, response, r)
    /\ UNCHANGED <<procVars, reducerVars, gateVars>>

SaveJson ==
    /\ call.op = ""
    /\ \E payload \in JsonPayloads, wrap \in Wraps :
         LET response == Wrapped(payload, wrap, JsonTag)
             r == save_json(response, LocalName)
         IN  /\ files' = r.files
             /\ call' = Outcome("save_json", LocalName, payload, wrap, response, r)
    /\ UNCHANGED <<procVars, reducerVars, gateVars>>

NextSave == SaveResponseAsJson \/ SaveResponseAsYaml \/ SaveJson

SpecSave == InitSave /\ [][NextSave]_vars

-----------------------------------------------------------------------------
(* Properties of the response validators *)

\* C7: fence stripping for JSON: a valid JSON text inside a fence, with or
\* without the format tag, validates to the same record as the text alone
C7_FenceStripping ==
    (/\ call.op = "save_response_as_json"
     /\ call.wrap \in {"fence", "tagged"}
     /\ json_loads(call.payload).ok)
        => (call.exc = "" /\ call.ok /\ call.val = json_loads(call.payload).val)

StrVal(chars) == [t |-> "str", v |-> chars]

\* C8: the YAML repair rewrites every bracket of the fence-stripped reply to
\* a double quote and nothing else, so key: [a, b] loads as key mapped to
\* the one string "a, b", and a reply without brackets reaches the parser
\* unchanged
C8_YamlRepair ==
    call.op = "save_response_as_yaml" =>
        /\ Len(call.loaded) = Len(call.stripped)
        /\ \A i \in 1..Len(call.stripped) :
              call.loaded[i] = IF call.stripped[i] \in {"[", "]"} THEN "\""
                               ELSE call.stripped[i]
        /\ call.payload = KeyColon \o ScenarioValue =>
              /\ call.ok
              /\ call.val = [t |-> "map",
                             v |-> << <<StrVal(<<"k", "e", "y">>),
                                        StrVal(<<"a", ",", " ", "b">>)>> >>]
        /\ (\A i \in 1..Len(call.response) : call.response[i] \notin {"[", "]"})
              => call.loaded = call.stripped

\* the reply key: [a, b] inside a tagged fence was repaired, parsed and saved
C8_Witness ==
    /\ call.op = "save_response_as_yaml"
    /\ call.payload = KeyColon \o ScenarioValue
    /\ call.wrap = "tagged"
    /\ files[<<call.name, ".yaml">>] = YamlDump(call.val)

\* the text handed to the parser parses in the format the operation declares
ParsesAsDeclared(c) ==
    IF c.op = "save_response_as_yaml" THEN yaml_load(c.loaded).ok
    ELSE json_loads(c.loaded).ok

\* C9: a record is persisted only after a successful parse: a call whose
\* normalised reply does not parse leaves every file as it was, and
\* save_response_as_json / save_response_as_yaml then raise ValueError
C9_PersistAfterParse ==
    [][(call'.op # "" /\ call.op = "" /\ ~ParsesAsDeclared(call'))
          => /\ files' = files
             /\ call'.op # "save_json" => call'.exc = "ValueError"]_vars

\* an unparseable JSON reply was rejected while an earlier artifact was at the path
C9_Witness ==
    /\ call.op = "save_response_as_json"
    /\ ~ParsesAsDeclared(call)
    /\ call.exc = "ValueError"
    /\ files[<<call.name, ".json">>] = Earlier

-----------------------------------------------------------------------------
(* The inference gateway *)

\* calls of run_inference in one behaviour
MaxCalls == 2

\* chunks of one streamed response
MaxChunks == 2

\* models callers pass; local-model is the sentinel of a local server
Models == {"gpt-4", "gpt-4-turbo-preview", "local-model"}

\* model identifiers tiktoken.encoding_for_model knows
KnownEncodings == {"gpt-4", "gpt-4-turbo-preview"}

NoEndpoint == "None"

Endpoints == {NoEndpoint, "172.31.48.1:5000"}

\* a chunk of a stream: delta.content is a fragment of text, or None
Fragment(text) == [has |-> TRUE, content |-> text]

NoContent == [has |-> FALSE, content |-> ""]

Chunks == {Fragment("a"), Fragment("b"), NoContent}

Streams == SeqsUpTo(Chunks, MaxChunks)

\* the model named in the request without the substitution
RequestModelUnchanged(model, json_mode) == model

\* the model named in the request: gpt-4 has no json mode
RequestModel(model, json_mode) ==
    IF json_mode /\ model = "gpt-4" THEN "gpt-4-turbo-preview" ELSE model

\* format_type["type"]
FormatType(json_mode) == IF json_mode THEN "json_object" ELSE "text"

\* base_url of the client; "default" is OpenAI's own endpoint
BaseUrl(api_endpoint) ==
    IF api_endpoint # NoEndpoint THEN "http://" \o api_endpoint \o "/v1" ELSE "default"

Request(model, streaming, json_mode, endpoint, prompt) ==
    [model |-> RequestModel(model, json_mode), stream |-> streaming,
     response_format |-> FormatType(json_mode), base_url |-> BaseUrl(endpoint),
     prompt |-> prompt]

\* the streaming loop putting each fragment in front of what has arrived
RECURSIVE AccumulatePrepends(_, _)
AccumulatePrepends(chunks, complete_response) ==
    IF chunks = <<>> THEN complete_response
    ELSE AccumulatePrepends(Tail(chunks),
                            IF Head(chunks).has
                            THEN Head(chunks).content \o complete_response
                            ELSE complete_response)

\* the loop over the chunks of a streamed response
RECURSIVE Accumulate(_, _)
Accumulate(chunks, complete_response) ==
    IF chunks = <<>> THEN complete_response
    ELSE Accumulate(Tail(chunks),
                    IF Head(chunks).has THEN complete_response \o Head(chunks).content
                    ELSE complete_response)

\* the messages a completed response can carry
Messages == {Accumulate(c, "") : c \in Streams}

\* the system prompts of html_tables_to_json_llm and text_tables_to_yaml_llm
Prompts == {"html to json", "text to yaml"}

Pipeline(model_identifier, api_endpoint) ==
    [model_identifier |-> model_identifier, api_endpoint |-> api_endpoint,
     calls |-> 0, model |-> "", streaming |-> FALSE, json_mode |-> FALSE,
     client |-> "", requested |-> FALSE, stream |-> <<>>, message |-> "",
     result |-> "", exc |-> ""]

InitGate ==
    /\ \E id \in {"gpt-4-turbo-preview", "local-model"}, ep \in Endpoints :
          inf = Pipeline(id, ep)
    /\ sent = <<>>
    /\ tree = <<>> /\ input = <<>> /\ pc = "" /\ ret = <<>> /\ exc = "" /\ strs = <<>>
    /\ files = <<>> /\ call = <<>>
    /\ run = <<>>

\* run_inference without the test for a missing local endpoint
run_inference_unchecked(self, model, streaming, prompt, json_mode, chunks, message) ==
    LET args == [self EXCEPT !.calls = @ + 1, !.model = model, !.streaming = streaming,
                             !.json_mode = json_mode, !.client = "", !.requested = FALSE,
                             !.stream = <<>>, !.message = "", !.result = "", !.exc = ""]
    IN  IF self.model_identifier \notin KnownEncodings
        THEN [inf |-> [args EXCEPT !.client = BaseUrl(self.api_endpoint),
                                   !.exc = "ValueError"],
              sent |-> sent]
        ELSE [inf |-> [args EXCEPT !.client = BaseUrl(self.api_endpoint),
                                   !.requested = TRUE,
                                   !.stream = IF streaming THEN chunks ELSE <<>>,
                                   !.message = IF streaming THEN "" ELSE message,
                                   !.result = IF streaming THEN Accumulate(chunks, "")
                                              ELSE message],
              sent |-> Append(sent, Request(model, streaming, json_mode,
                                            self.api_endpoint, prompt))]

\* PdfToJsonPipeline.run_inference, the endpoint answering with the stream
\* chunks (streaming) or the message (not streaming)
run_inference(self, model, streaming, prompt, json_mode, chunks, message) ==
    LET args == [self EXCEPT !.calls = @ + 1, !.model = model, !.streaming = streaming,
                             !.json_mode = json_mode, !.client = "", !.requested = FALSE,
                             !.stream = <<>>, !.message = "", !.result = "", !.exc = ""]
    IN  IF model = "local-model" /\ self.api_endpoint = NoEndpoint
        THEN [inf |-> [args EXCEPT !.exc = "ValueError"], sent |-> sent]
        ELSE IF self.model_identifier \notin KnownEncodings
        THEN [inf |-> [args EXCEPT !.client = BaseUrl(self.api_endpoint),
                                   !.exc = "ValueError"],
              sent |-> sent]
        ELSE [inf |-> [args EXCEPT !.client = BaseUrl(self.api_endpoint),
                                   !.requested = TRUE,
                                   !.stream = IF streaming THEN chunks ELSE <<>>,
                                   !.message = IF streaming THEN "" ELSE message,
                                   !.result = IF streaming THEN Accumulate(chunks, "")
                                              ELSE message],
              sent |-> Append(sent, Request(model, streaming, json_mode,
                                            self.api_endpoint, prompt))]

RunInference ==
    /\ inf.calls < MaxCalls
    /\ \E model \in Models, streaming \in BOOLEAN, json_mode \in BOOLEAN, prompt \in Prompts :
         \E chunks \in IF streaming THEN Streams ELSE {<<>>},
            message \in IF streaming THEN {""} ELSE Messages :
            LET r == run_inference(inf, model, streaming, prompt, json_mode, chunks, message)
            IN  /\ inf' = r.inf
                /\ sent' = r.sent
    /\ UNCHANGED <<procVars, reducerVars, saveVars>>

NextGate == RunInference

SpecGate == InitGate /\ [][NextGate]_vars

\* the address the script variant uses for local-model
LocalServer == "172.31.48.1:5000"

\* run_inference of the script variant: always streaming, no response format
local_run_inference(self, llm_model, chunks) ==
    LET base_url == IF llm_model = "local-model" THEN BaseUrl(LocalServer) ELSE "default"
    IN  [inf |-> [self EXCEPT !.calls = @ + 1, !.model = llm_model, !.streaming = TRUE,
                              !.json_mode = FALSE, !.client = base_url,
                              !.requested = TRUE, !.stream = chunks, !.message = "",
                              !.result = Accumulate(chunks, ""), !.exc = ""],
         sent |-> Append(sent, [model |-> llm_model, stream |-> TRUE,
                                response_format |-> "unset", base_url |-> base_url,
                                prompt |-> "html to json objects"])]

LocalRunInference ==
    /\ inf.calls < MaxCalls
    /\ \E llm_model \in Models, chunks \in Streams :
         LET r == local_run_inference(inf, llm_model, chunks)
         IN  /\ inf' = r.inf
             /\ sent' = r.sent
    /\ UNCHANGED <<procVars, reducerVars, saveVars>>

\* calls of either run_inference in one behaviour of SpecStream
MaxStreamCalls == 1

NextStream == (inf.calls < MaxStreamCalls /\ RunInference) \/ (inf.calls < MaxStreamCalls /\ LocalRunInference)

\* both variants of run_inference, for the streaming loop they share
SpecStream == InitGate /\ [][NextStream]_vars

-----------------------------------------------------------------------------
(* Properties of the inference gateway *)

LastSent == sent[Len(sent)]

\* C10: model substitution: a json-mode call for gpt-4 sends its request to
\* gpt-4-turbo-preview, no json_object request is ever sent to gpt-4, and
\* without json mode the model asked for is sent with response_format text
C10_ModelSubstitution ==
    /\ \A i \in 1..Len(sent) :
          ~(sent[i].response_format = "json_object" /\ sent[i].model = "gpt-4")
    /\ inf.requested =>
          /\ (inf.json_mode /\ inf.model = "gpt-4")
                => (LastSent.model = "gpt-4-turbo-preview"
                    /\ LastSent.response_format = "json_object")
          /\ ~inf.json_mode
                => (LastSent.model = inf.model /\ LastSent.response_format = "text")

\* a json-mode request for gpt-4 was sent
C10_Witness ==
    /\ inf.requested /\ inf.json_mode /\ inf.model = "gpt-4"
    /\ Len(sent) = inf.calls


\* C11: a missing local endpoint is a configuration error: run_inference for
\* local-model on a pipeline without api_endpoint raises ValueError before a
\* client is created and before a request is sent, and no request for
\* local-model ever goes to the default remote endpoint
C11_MissingLocalEndpoint ==
    /\ [](\A i \in 1..Len(sent) :
             ~(sent[i].model = "local-model" /\ sent[i].base_url = "default"))
    /\ [][(inf'.calls = inf.calls + 1 /\ inf'.model = "local-model"
             /\ inf.api_endpoint = NoEndpoint)
            => (inf'.exc = "ValueError" /\ inf'.client = "" /\ ~inf'.requested
                /\ sent' = sent)]_vars

\* after a request was sent, a call for local-model without endpoint was refused
C11_Witness ==
    /\ inf.calls = 2 /\ Len(sent) = 1
    /\ inf.model = "local-model" /\ inf.api_endpoint = NoEndpoint
    /\ inf.exc = "ValueError"

\* the non-null content fragments of a stream, in arrival order
Fragments(stream) ==
    LET arrived == SelectSeq(stream, LAMBDA c : c.has)
    IN  [i \in 1..Len(arrived) |-> arrived[i].content]

\* C12: streaming accumulation: a streaming call returns the concatenation,
\* in arrival order, of exactly the non-null fragments, which is what a
\* non-streaming call returns for the message those fragments make up
C12_StreamingAccumulation ==
    inf.requested =>
        /\ inf.streaming =>
              /\ inf.result = JoinStr(Fragments(inf.stream))
              /\ inf.result =
                    run_inference(Pipeline("gpt-4-turbo-preview", NoEndpoint), "gpt-4",
                                  FALSE, "html to json", inf.json_mode, <<>>,
                                  JoinStr(Fragments(inf.stream))).inf.result
        /\ ~inf.streaming => inf.result = inf.message

\* two fragments arrived in order and were accumulated
C12_Witness ==
    /\ inf.requested /\ inf.streaming
    /\ inf.stream = <<Fragment("a"), Fragment("b")>>
    /\ inf.result = "ab"

-----------------------------------------------------------------------------
(* ProcessPdfs: run lists the folder and calls process_single_pdf on every  *)
(* PDF; process_single_pdf converts, cleans and runs the four variants.     *)
(* Nothing in run or process_single_pdf catches an exception.               *)

\* entries of the folder listing
MaxDocs == 2

PdfExt == <<".", "p", "d", "f">>

Entries == {<<"A">> \o PdfExt, <<"B">> \o PdfExt, <<"r", ".", "t", "x", "t">>}

\* os.listdir: the entries of the folder, each once, in any order
Listings == {l \in SeqsUpTo(Entries, MaxDocs) : \A i, j \in 1..Len(l) : l[i] = l[j] => i = j}

\* str.endswith
endswith(f, suffix) ==
    Len(f) >= Len(suffix) /\ SubSeq(f, Len(f) - Len(suffix) + 1, Len(f)) = suffix

\* file_name of process_single_pdf
file_name(pdf_file) == replace(pdf_file, PdfExt, <<>>)

Whole == <<"_", "w", "h", "o", "l", "e">>

WholeText == Whole \o <<"_", "t", "e", "x", "t">>

\* the four variants of process_single_pdf in the order they run: the
\* wrapper called, its arguments, the validator and the name suffix
Variants ==
    << [prompt |-> "html to json", model |-> "gpt-4-turbo-preview", streaming |-> FALSE,
        json_mode |-> TRUE, save |-> "save_response_as_json", suffix |-> Whole],
       [prompt |-> "text to json", model |-> "gpt-4-turbo-preview", streaming |-> FALSE,
        json_mode |-> TRUE, save |-> "save_response_as_json", suffix |-> WholeText],
       [prompt |-> "html to yaml", model |-> "gpt-4", streaming |-> FALSE,
        json_mode |-> FALSE, save |-> "save_response_as_yaml", suffix |-> Whole],
       [prompt |-> "text to yaml", model |-> "gpt-4", streaming |-> FALSE,
        json_mode |-> FALSE, save |-> "save_response_as_yaml", suffix |-> WholeText] >>

\* every variant saving under the suffix of the first
output_file_name_one_suffix(pdf_file, v) == file_name(pdf_file) \o Whole

\* the output_file_name handed to the validator by variant v
output_file_name(pdf_file, v) == file_name(pdf_file) \o Variants[v].suffix

\* <div data-page-no="1"><div><div></div></div></div>
NestedEmptyDivs ==
    <<  Elem("div", << <<"data-page-no", "1">> >>, <<2>>, 0),
        Elem("div", <<>>, <<3>>, 1),
        Elem("div", <<>>, <<>>, 2) >>

\* the page in the HTML file the converter writes
HtmlPages == {ScenarioPage, NestedEmptyDivs}

\* outcomes of convert_pdf_to_html
ConvertOutcomes == {"", "FileNotFoundError", "Exception"}

Reply(payload, wrap) == [payload |-> payload, wrap |-> wrap]

\* replies of the model to the JSON variants
JsonReplies ==
    {Reply(ScenarioJson, "bare"), Reply(<<"{", "}">>, "bare"),
     Reply(ScenarioJson, "tagged"), Reply(<<"{">>, "bare")}

\* replies of the model to the YAML variants
YamlReplies ==
    {Reply(KeyColon \o ScenarioValue, "bare"), Reply(KeyColon \o <<"a">>, "tagged"),
     Reply(KeyColon \o <<"[", "a">>, "bare")}

\* the output directories: every path the variants of the listed PDFs can name
OutputPaths ==
    {<<file_name(f) \o suffix, ext>> :
        f \in Entries, suffix \in {<<>>, Whole, WholeText}, ext \in {".json", ".yaml"}}

\* main: ProcessPdfs("gpt-4-turbo-preview", "test")
InitProcess ==
    /\ \E folder \in Listings :
          run = [folder |-> folder, pdf_files |-> <<>>, i |-> 0, v |-> 0, at |-> "run",
                 exc |-> "", html |-> <<>>, cleaned_html |-> "",
                 entered |-> {}, completed |-> {}, log |-> <<>>]
    /\ inf = Pipeline("gpt-4-turbo-preview", NoEndpoint)
    /\ sent = <<>>
    /\ files = [p \in OutputPaths |-> Absent]
    /\ call = NoCall
    /\ tree = <<>> /\ input = <<>> /\ pc = "" /\ ret = <<>> /\ exc = "" /\ strs = <<>>

\* an entry of the log: what step v of document i did
Event(i, step, v, raised, val) ==
    [doc |-> i, step |-> step, variant |-> v, exc |-> raised, val |-> val]

\* run up to the loop: the PDFs of the folder listing
Listdir ==
    /\ run.at = "run"
    /\ run' = [run EXCEPT !.pdf_files = SelectSeq(run.folder, LAMBDA f : endswith(f, PdfExt)),
                          !.at = "for"]
    /\ UNCHANGED <<reducerVars, saveVars, gateVars>>

\* the for statement of run: the next PDF enters process_single_pdf, or run
\* returns
ForPdfFile ==
    /\ run.at = "for"
    /\ run' = IF run.i < Len(run.pdf_files)
              THEN [run EXCEPT !.i = @ + 1, !.entered = @ \cup {run.i + 1},
                               !.at = "convert"]
              ELSE [run EXCEPT !.at = "returned"]
    /\ UNCHANGED <<reducerVars, saveVars, gateVars>>

\* convert_pdf_to_html in process_single_pdf
ConvertPdfToHtml ==
    /\ run.at = "convert"
    /\ \E raised \in ConvertOutcomes, page \in HtmlPages :
         /\ raised # "" => page = ScenarioPage
         /\ run' = IF raised # ""
                   THEN [run EXCEPT !.at = "raised", !.exc = raised,
                                    !.log = Append(@, Event(run.i, "convert", 0, raised, <<>>))]
                   ELSE [run EXCEPT !.at = "clean", !.html = page]
    /\ UNCHANGED <<reducerVars, saveVars, gateVars>>

\* clean_html_content and html_to_text in process_single_pdf
CleanConverted ==
    /\ run.at = "clean"
    /\ LET r == remove_images_and_empty_divs(run.html, Root)
       IN  run' = IF r.exc # ""
                  THEN [run EXCEPT !.at = "raised", !.exc = r.exc,
                                   !.log = Append(@, Event(run.i, "clean", 0, r.exc, <<>>))]
                  ELSE [run EXCEPT !.at = "variant", !.v = 1,
                                   !.cleaned_html = Str(r.t, Root)]
    /\ UNCHANGED <<reducerVars, saveVars, gateVars>>

\* one variant of process_single_pdf: the wrapper's run_inference, then the
\* validator on its return value
RunVariant(v, replies, tag) ==
    /\ run.at = "variant" /\ run.v = v
    /\ \E reply \in replies :
         LET pdf_file == run.pdf_files[run.i]
             response == Wrapped(reply.payload, reply.wrap, tag)
             asked == run_inference(inf, Variants[v].model, Variants[v].streaming,
                                    Variants[v].prompt, Variants[v].json_mode,
                                    <<>>, response)
             name == output_file_name(pdf_file, v)
             r == IF Variants[v].save = "save_response_as_json"
                  THEN save_response_as_json(asked.inf.result, name)
                  ELSE save_response_as_yaml(asked.inf.result, name)
         IN  /\ inf' = asked.inf
             /\ sent' = asked.sent
             /\ IF asked.inf.exc # ""
                THEN /\ run' = [run EXCEPT !.at = "raised", !.exc = asked.inf.exc,
                                           !.log = Append(@, Event(run.i, "variant", v, asked.inf.exc, <<>>))]
                     /\ UNCHANGED saveVars
                ELSE /\ files' = r.files
                     /\ call' = Outcome(Variants[v].save, name, reply.payload, reply.wrap,
                                        response, r)
                     /\ run' = IF r.exc # ""
                               THEN [run EXCEPT !.at = "raised", !.exc = r.exc,
                                                !.log = Append(@, Event(run.i, "variant", v, r.exc, <<>>))]
                               ELSE [run EXCEPT !.log = Append(@, Event(run.i, "variant", v, "", r.val)),
                                                !.v = IF v < Len(Variants) THEN v + 1 ELSE 0,
                                                !.at = IF v < Len(Variants) THEN "variant"
                                                       ELSE "for",
                                                !.completed = IF v < Len(Variants) THEN @
                                                              ELSE @ \cup {run.i}]
    /\ UNCHANGED reducerVars

HtmlTablesToJson == RunVariant(1, JsonReplies, JsonTag)

TextTablesToJson == RunVariant(2, JsonReplies, JsonTag)

HtmlTablesToYaml == RunVariant(3, YamlReplies, YamlTag)

TextTablesToYaml == RunVariant(4, YamlReplies, YamlTag)

NextProcess ==
    \/ Listdir
    \/ ForPdfFile
    \/ ConvertPdfToHtml
    \/ CleanConverted
    \/ HtmlTablesToJson
    \/ TextTablesToJson
    \/ HtmlTablesToYaml
    \/ TextTablesToYaml

SpecProcess == InitProcess /\ [][NextProcess]_vars

-----------------------------------------------------------------------------
(* Properties of ProcessPdfs *)

\* run is over: it returned, or an exception left it
Ended == run.at \in {"returned", "raised"}

\* the log has an entry of step v of document i
Ran(i, v) == \E k \in 1..Len(run.log) : run.log[k].doc = i /\ run.log[k].variant = v

\* C13: validation-error isolation between variants: when a variant's
\* validator raises ValueError, every later variant of the same document
\* has still run its inference and persistence step by the time run is over
C13_VariantIsolation ==
    Ended =>
        \A k \in 1..Len(run.log) :
            (run.log[k].step = "variant" /\ run.log[k].exc = "ValueError")
                => \A v \in (run.log[k].variant + 1)..Len(Variants) : Ran(run.log[k].doc, v)

\* C14: precondition-error isolation between documents: when
\* convert_pdf_to_html raises for one PDF, every other PDF of the listing
\* has been processed by process_single_pdf by the time run is over
C14_DocumentIsolation ==
    Ended =>
        \A k \in 1..Len(run.log) :
            (run.log[k].step = "convert" /\ run.log[k].exc # "")
                => \A j \in 1..Len(run.pdf_files) : j # run.log[k].doc => j \in run.entered

\* the value step v of document i parsed and saved
Saved(i, v) ==
    run.log[CHOOSE k \in 1..Len(run.log) :
                run.log[k].doc = i /\ run.log[k].variant = v].val

\* the base name N of a PDF: the name without its extension
BaseName(pdf_file) == SubSeq(pdf_file, 1, Len(pdf_file) - Len(PdfExt))

\* C15: one artifact per variant: once process_single_pdf has completed for
\* the PDF with base name N, N_whole.json, N_whole_text.json, N_whole.yaml
\* and N_whole_text.yaml each hold what their own variant parsed, and these
\* four are the only artifacts of N
C15_OneArtifactPerVariant ==
    \A i \in run.completed :
        LET N == BaseName(run.pdf_files[i])
        IN  /\ files[<<N \o Whole, ".json">>] = JsonDump(Saved(i, 1))
            /\ files[<<N \o WholeText, ".json">>] = JsonDump(Saved(i, 2))
            /\ files[<<N \o Whole, ".yaml">>] = YamlDump(Saved(i, 3))
            /\ files[<<N \o WholeText, ".yaml">>] = YamlDump(Saved(i, 4))
            /\ Cardinality({p \in DOMAIN files :
                              /\ files[p] # Absent
                              /\ SubSeq(p[1], 1, Len(N)) = N}) = 4

\* both PDFs of a folder completed, the HTML and the text variant of one of
\* them having parsed different values
C15_Witness ==
    /\ run.at = "returned"
    /\ run.completed = {1, 2}
    /\ Saved(1, 1) # Saved(1, 2)
    /\ Saved(2, 3) # Saved(2, 4)

-----------------------------------------------------------------------------
(* Text preservation of the markup reducer *)

\* the non-whitespace strings at and below n, in document order
RECURSIVE NonSpaceTexts(_, _)
NonSpaceTexts(t, n) ==
    IF t[n].tag = "#text"
    THEN IF IsSpace(t[n].data) THEN <<>> ELSE <<t[n].data>>
    ELSE Concat([i \in 1..Len(t[n].kids) |-> NonSpaceTexts(t, t[n].kids[i])])

\* the nodes the reducer took out itself: gone from the tree, their parent
\* in the parsed page still there
RemovalRoots ==
    {n \in Live(input) \ Live(tree) : input[n].parent \in Live(tree)}

\* C16: text preservation: _remove_images_and_empty_divs takes out only img
\* elements and div/span elements with no non-whitespace text anywhere
\* below them, so the non-whitespace strings of the page, in document
\* order, are the same after the call as before, whether it returned or raised
C16_TextPreserved ==
    pc \in {"reduced", "reduced2", "cleaned", "raised"} =>
        /\ NonSpaceTexts(tree, Root) = NonSpaceTexts(input, Root)
        /\ \A n \in RemovalRoots :
              \/ input[n].tag = "img"
              \/ /\ input[n].tag \in {"div", "span"}
                 /\ NonSpaceTexts(input, n) = <<>>

\* an element was taken out next to a div or span that was kept for its text
C16_Witness ==
    /\ pc = "reduced"
    /\ RemovalRoots # {}
    /\ \E n \in Live(tree) \ {Root} :
          tree[n].tag \in {"div", "span"} /\ NonSpaceTexts(tree, n) # <<>>

=============================================================================
